---- MODULE Spec2Model ----
(***************************************************************************)
(* Model of manifest_generator.py: one run of main(), which resolves the   *)
(* latest release of a repository, classifies its assets into architecture *)
(* buckets, hashes every chosen asset and writes a Scoop manifest.         *)
(* Strings of the program are TLA+ strings; Python dicts are functions     *)
(* whose DOMAIN is the set of keys (plus the key order where the program   *)
(* iterates the dict).                                                     *)
(***************************************************************************)
EXTENDS Integers, Sequences, FiniteSets, TLC

\* ------------------------------------------------------------------ bounds
\* Longest asset list of a release the model enumerates.
MaxAssets == 2

\* ------------------------------------------------------- Python primitives
\* Python's None, for the optional command-line names and absent headers.
None == "<None>"

\* The empty dict {}.
EmptyDict == [k \in {} |-> ""]

\* Truthiness of an optional string: None and "" are falsy.
Truthy(x) == x # None /\ x # ""

\* d.get(k, default)
Get(d, k, default) == IF k \in DOMAIN d THEN d[k] ELSE default

\* `pat in s`, which is what re.search does for a pattern without
\* metacharacters.
Contains(s, pat) ==
  \E i \in 1..(Len(s) - Len(pat) + 1) : SubSeq(s, i, i + Len(pat) - 1) = pat

\* re.search(r'p1|p2|...', s) for literal alternatives.
ReSearch(pats, s) == \E p \in pats : Contains(s, p)

\* s.endswith(suffix)
EndsWith(s, suffix) ==
  /\ Len(suffix) <= Len(s)
  /\ SubSeq(s, Len(s) - Len(suffix) + 1, Len(s)) = suffix

LowerLetters == "abcdefghijklmnopqrstuvwxyz"

\* The lowercase of each (ASCII) uppercase letter.
UpperToLower ==
  [A |-> "a", B |-> "b", C |-> "c", D |-> "d", E |-> "e", F |-> "f", G |-> "g",
   H |-> "h", I |-> "i", J |-> "j", K |-> "k", L |-> "l", M |-> "m", N |-> "n",
   O |-> "o", P |-> "p", Q |-> "q", R |-> "r", S |-> "s", T |-> "t", U |-> "u",
   V |-> "v", W |-> "w", X |-> "x", Y |-> "y", Z |-> "z"]

\* str.lower() on one character.
LowerChar(c) == IF c \in DOMAIN UpperToLower THEN UpperToLower[c] ELSE c

\* str.lower(): the lowercase of the characters from the i-th on.
RECURSIVE LowerFrom(_, _)
LowerFrom(s, i) ==
  IF i > Len(s) THEN ""
  ELSE LowerChar(SubSeq(s, i, i)) \o LowerFrom(s, i + 1)

Lower(s) == LowerFrom(s, 1)

\* str.lstrip(chars) for a one-character `chars`: removes EVERY leading
\* occurrence of the character.
RECURSIVE Lstrip(_, _)
Lstrip(s, c) ==
  IF s # "" /\ SubSeq(s, 1, 1) = c THEN Lstrip(SubSeq(s, 2, Len(s)), c) ELSE s

\* s.split(sep)[0] for a one-character separator.
RECURSIVE SplitFirst(_, _)
SplitFirst(s, sep) ==
  IF s = "" \/ SubSeq(s, 1, 1) = sep THEN ""
  ELSE SubSeq(s, 1, 1) \o SplitFirst(SubSeq(s, 2, Len(s)), sep)

\* s.split(sep)[-1] for a one-character separator; Path(s).name for the
\* file names main() builds (they end in ".json", so never in a slash).
RECURSIVE SplitLast(_, _)
SplitLast(s, sep) ==
  IF s = "" \/ SubSeq(s, Len(s), Len(s)) = sep THEN ""
  ELSE SplitLast(SubSeq(s, 1, Len(s) - 1), sep) \o SubSeq(s, Len(s), Len(s))

\* s[:n]
Take(s, n) == SubSeq(s, 1, IF Len(s) < n THEN Len(s) ELSE n)

\* The value of each decimal digit.
DigitValue ==
  ("0" :> 0) @@ ("1" :> 1) @@ ("2" :> 2) @@ ("3" :> 3) @@ ("4" :> 4) @@
  ("5" :> 5) @@ ("6" :> 6) @@ ("7" :> 7) @@ ("8" :> 8) @@ ("9" :> 9)

\* int(s) for a string of decimal digits: the value of its first n digits.
RECURSIVE ParseDigits(_, _)
ParseDigits(s, n) ==
  IF n = 0 THEN 0
  ELSE 10 * ParseDigits(s, n - 1) + DigitValue[SubSeq(s, n, n)]

ParseInt(s) == ParseDigits(s, Len(s))

\* hashlib.sha256 over the concatenated chunks, hexdigest(): the digest is
\* kept as an uninterpreted term over exactly the bytes fed to update().
Sha256Hex(bytes) == [alg |-> "sha256", hexdigest_of |-> bytes]

\* An ordered dict: keys in first-insertion order, val the mapping.
NewDict == [keys |-> <<>>, val |-> EmptyDict]

InKeys(d, k) == \E i \in 1..Len(d.keys) : d.keys[i] = k

\* Mutant of DictSet: an existing key keeps its value (dict.setdefault).
DictSetKeepFirst(d, k, v) ==
  IF InKeys(d, k)
  THEN d
  ELSE [keys |-> Append(d.keys, k), val |-> (k :> v) @@ d.val]

\* d[k] = v
DictSet(d, k, v) ==
  IF InKeys(d, k)
  THEN [keys |-> d.keys, val |-> [d.val EXCEPT ![k] = v]]
  ELSE [keys |-> Append(d.keys, k), val |-> (k :> v) @@ d.val]

\* len(d)
DictLen(d) == Len(d.keys)

\* ------------------------------------------------------------------ inputs
\* Command lines (sys.argv[1:]): none, repo, repo app_name, repo app_name
\* bin_name.
Argvs == {<<>>, <<"o/Tool">>, <<"o/Tool", "App">>, <<"o/Tool", "App", "b.exe">>}

\* The optional fields of a release: body and license.
MetaBare == ("body" :> "") @@ ("license" :> [key |-> "mit"])
MetaFull == ("body" :> "fast\ntool") @@ ("license" :> [spdx_id |-> "MIT"])

\* The releases' tag, the path their assets are served under (one that
\* holds the tag, or one that does not) and their optional fields.
ReleaseKinds ==
  { [tag |-> t[1], base |-> t[2], meta |-> m] :
      t \in {<<"v1", "d/v1/">>, <<"vv1", "d/vv1/">>, <<"1", "d/x/">>},
      m \in {MetaBare, MetaFull} }

\* Asset file names of a release.
AssetNames ==
  {"t-amd64-v3.exe", "T-X86_64-V3.ZIP", "t-v3-amd64.zip", "t-amd64.zip",
   "t-x86.exe", "t-linux-amd64.zip", "t-darwin.zip", "t.exe", "t-amd64.tar.gz"}

\* The i-th asset of a release has its own URL.
UrlOf(base, i) == base \o SubSeq(LowerLetters, i, i)

AssetLists(base) ==
  UNION { { [i \in 1..n |-> [name |-> names[i], browser_download_url |-> UrlOf(base, i)]]
            : names \in [1..n -> AssetNames] } : n \in 0..MaxAssets }

Releases ==
  UNION { { ("tag_name" :> kind.tag) @@ ("assets" :> assets) @@ kind.meta
            : assets \in AssetLists(kind.base) } : kind \in ReleaseKinds }

\* An older release, listed after the newest one.
OlderRelease == ("tag_name" :> "v0") @@ ("assets" :> <<>>)

\* What the releases endpoint answers (response.json()): no release, the
\* old release alone, or a new release followed by the old one.
Listings == {<<>>, <<OlderRelease>>} \cup { <<r, OlderRelease>> : r \in Releases }

\* What the server answers to a download: the Content-Length header (None
\* when absent) and the chunks iter_content yields.
Responses ==
  { [content_length |-> None,        chunks |-> <<"MZ", "", "1">>],
    [content_length |-> "104857600", chunks |-> <<"PK">>],
    [content_length |-> "104857601", chunks |-> <<"PK">>] }

\* The ways a GET fails: session.get raises, or raise_for_status raises.
RequestErrors == {"ConnectionError", "HTTPError"}

\* ------------------------------------------------------------------- state
VARIABLES
  pc,            \* where the run of main() is
  argv,          \* sys.argv[1:]
  releases,      \* get_latest_release's `releases` (<<>> before line 26)
  release,       \* generate_manifest's `release` (EmptyDict before line 80 returns)
  windows_assets,\* generate_manifest's `windows_assets`
  bin_name,      \* generate_manifest's `bin_name`
  manifest,      \* generate_manifest's `manifest` (EmptyDict before line 97)
  todo,          \* the architectures whose asset is still to be hashed
  content_length,\* get_file_hash's `content_length` of the latest download
  main_manifest, \* main's `manifest` (EmptyDict before line 147 returns)
  err,           \* the exception in flight or caught
  exit_code,     \* the process' exit code (<<>> while running)
  log,           \* the error line main() logged
  files,         \* the files written: name -> the dict given to json.dump
  calls,         \* the methods called so far, with the URL they fetch
  chunks_read    \* the URLs whose body chunks were read

vars == <<pc, argv, releases, release, windows_assets, bin_name, manifest, todo,
          content_length, main_manifest, err, exit_code, log, files, calls,
          chunks_read>>

NoErr == [type |-> "", msg |-> ""]

\* ------------------------------------------------------ find_windows_assets
Skipped == "<skipped>"

\* name.endswith('.exe') or name.endswith('.zip')
IsWindows(name) == EndsWith(name, ".exe") \/ EndsWith(name, ".zip")

\* Mutant of Bucket: the generic 64-bit pattern is tried before the v3 one.
BucketGenericFirst(name) ==
  IF ReSearch({"amd64", "x86_64"}, name) THEN "64bit"
  ELSE IF ReSearch({"amd64-v3", "x86_64-v3"}, name) THEN "64bit-v3"
  ELSE IF ReSearch({"x86"}, name) THEN "32bit"
  ELSE IF ReSearch({"arm64", "arm32", "armv7", "386", "686", "linux",
                    "darwin", "freebsd", "macos"}, name) THEN Skipped
  ELSE "unknown"

\* The if/elif chain over the lowercased name: the bucket, or Skipped.
Bucket(name) ==
  IF ReSearch({"amd64-v3", "x86_64-v3"}, name) THEN "64bit-v3"
  ELSE IF ReSearch({"amd64", "x86_64"}, name) THEN "64bit"
  ELSE IF ReSearch({"x86"}, name) THEN "32bit"
  ELSE IF ReSearch({"arm64", "arm32", "armv7", "386", "686", "linux",
                    "darwin", "freebsd", "macos"}, name) THEN Skipped
  ELSE "unknown"

\* One iteration of the loop over the assets.
ClassifyAsset(win_assets, asset) ==
  LET name == Lower(asset.name) IN
  IF ~IsWindows(name) THEN win_assets
  ELSE IF Bucket(name) = Skipped THEN win_assets
  ELSE DictSet(win_assets, Bucket(name), asset.browser_download_url)

RECURSIVE ClassifyFrom(_, _, _)
ClassifyFrom(assets, i, win_assets) ==
  IF i > Len(assets) THEN win_assets
  ELSE ClassifyFrom(assets, i + 1, ClassifyAsset(win_assets, assets[i]))

FindWindowsAssets(assets) == ClassifyFrom(assets, 1, NewDict)

\* --------------------------------------------------------- get_latest_release
ReleasesUrl(repo) == "https://api.github.com/repos/" \o repo \o "/releases"

\* Mutant of NoReleases: a listing of one release counts as empty.
NoReleasesOffByOne(listing) == Len(listing) <= 1

\* `if not releases`
NoReleases(listing) == listing = <<>>

NoReleasesError == [type |-> "ValueError", msg |-> "No releases found for the repository"]

\* ---------------------------------------------------------- generate_manifest
\* app_name and bin_name after their defaults are filled in.
AppName(args) ==
  IF Len(args) > 1 /\ Truthy(args[2]) THEN args[2] ELSE SplitLast(args[1], "/")

BinName(args) ==
  IF Len(args) > 2 /\ Truthy(args[3]) THEN args[3] ELSE Lower(AppName(args)) \o ".exe"

\* Mutant of NoWindowsAssets: the emptiness check is missing.
NoWindowsAssetsUnchecked(win_assets) == FALSE

\* `if not windows_assets`
NoWindowsAssets(win_assets) == DictLen(win_assets) = 0

NoWindowsAssetsError == [type |-> "ValueError", msg |-> "No Windows assets found in the release"]

LicenseInfo(rel) ==
  IF "license" \in DOMAIN rel /\ DOMAIN rel["license"] # {}
  THEN Get(rel["license"], "spdx_id", "Unknown")
  ELSE "Unknown"

\* release['tag_name'].lstrip('v')
Version(rel) == Lstrip(rel["tag_name"], "v")

Description(rel, app) ==
  IF Truthy(Get(rel, "body", None))
  THEN Take(SplitFirst(rel["body"], "\n"), 100)
  ELSE app \o " - GitHub release"

\* The base structure of the manifest.
BaseManifest(rel, repo, app) ==
  ("version" :> Version(rel)) @@
  ("description" :> Description(rel, app)) @@
  ("homepage" :> "https://github.com/" \o repo) @@
  ("license" :> LicenseInfo(rel)) @@
  ("notes" :> Get(rel, "body", ""))

\* Mutant of SingleArchitecture: two buckets still take the flat shape.
SingleArchitectureUpToTwo(win_assets) == DictLen(win_assets) <= 2

\* `if len(windows_assets) == 1`
SingleArchitecture(win_assets) == DictLen(win_assets) = 1

\* The {url, hash, bin} record of one asset.
Entry(url, digest, bin) == [url |-> url, hash |-> digest, bin |-> bin]

\* The manifest once the asset of `arch` is hashed.
WithEntry(m, win_assets, arch, digest, bin) ==
  IF SingleArchitecture(win_assets)
  THEN [k \in {"url", "hash", "bin"} |-> Entry(win_assets.val[arch], digest, bin)[k]] @@ m
  ELSE [m EXCEPT !["architecture"] =
          (arch :> Entry(win_assets.val[arch], digest, bin)) @@ @]

\* -------------------------------------------------------------- get_file_hash
SizeLimit == 100 * 1024 * 1024

\* Mutant of TooLarge: a size equal to the limit is rejected too.
TooLargeInclusive(cl) == Truthy(cl) /\ ParseInt(cl) >= SizeLimit

\* `if content_length and int(content_length) > 100 * 1024 * 1024`
TooLarge(cl) == Truthy(cl) /\ ParseInt(cl) > SizeLimit

TooLargeError(cl) == [type |-> "ValueError", msg |-> "File too large: " \o cl \o " bytes"]

\* The chunks that reach sha256_hash.update(): `if chunk`.
RECURSIVE Hashed(_)
Hashed(chunks) ==
  IF chunks = <<>> THEN ""
  ELSE (IF Head(chunks) # "" THEN Head(chunks) ELSE "") \o Hashed(Tail(chunks))

\* ------------------------------------------------------------------------ main
\* f"{app_name or repo.split('/')[-1]}.json"
FileName(args) ==
  (IF Len(args) > 1 /\ Truthy(args[2]) THEN args[2] ELSE SplitLast(args[1], "/"))
    \o ".json"

\* Path(filename).name
SafeFileName(filename) == SplitLast(filename, "/")

\* isinstance(e, cls) for the exception classes of the except clauses.
IsInstance(e, cls) ==
  \/ cls = "Exception"
  \/ cls = e.type
  \/ cls = "RequestException" /\ e.type \in RequestErrors

\* Mutant of Raise: the failure is swallowed and main goes on to save.
RaiseAndContinue(e) ==
  /\ pc' = "save_manifest"
  /\ err' = e

\* raise e: control leaves every frame up to main's try block.
Raise(e) ==
  /\ pc' = "except"
  /\ err' = e

Init ==
  /\ pc = "main"
  /\ argv \in Argvs
  /\ releases = <<>>
  /\ release = EmptyDict
  /\ windows_assets = NewDict
  /\ bin_name = None
  /\ manifest = EmptyDict
  /\ todo = <<>>
  /\ content_length = None
  /\ main_manifest = EmptyDict
  /\ err = NoErr
  /\ exit_code = <<>>
  /\ log = None
  /\ files = EmptyDict
  /\ calls = <<>>
  /\ chunks_read = {}

\* main, lines 135-138: too few arguments.
Usage ==
  /\ pc = "main"
  /\ Len(argv) < 1
  /\ pc' = "exit"
  /\ exit_code' = <<1>>
  /\ UNCHANGED <<argv, releases, release, windows_assets, bin_name, manifest, todo,
                 content_length, main_manifest, err, log, files, calls, chunks_read>>

\* get_latest_release, lines 23-25: the request fails.
ReleaseRequestFails ==
  /\ pc = "main"
  /\ Len(argv) >= 1
  /\ calls' = Append(calls, [fn |-> "get_latest_release", url |-> ReleasesUrl(argv[1])])
  /\ \E t \in RequestErrors : Raise([type |-> t, msg |-> ReleasesUrl(argv[1])])
  /\ UNCHANGED <<argv, releases, release, windows_assets, bin_name, manifest, todo,
                 content_length, main_manifest, exit_code, log, files, chunks_read>>

\* get_latest_release, lines 23-28: the listing is empty.
ReleasesEmpty ==
  /\ pc = "main"
  /\ Len(argv) >= 1
  /\ calls' = Append(calls, [fn |-> "get_latest_release", url |-> ReleasesUrl(argv[1])])
  /\ releases' \in Listings
  /\ NoReleases(releases')
  /\ Raise(NoReleasesError)
  /\ UNCHANGED <<argv, release, windows_assets, bin_name, manifest, todo,
                 content_length, main_manifest, exit_code, log, files, chunks_read>>

\* generate_manifest, lines 80-92: the release has no Windows asset.
NoAssetsFound ==
  /\ pc = "main"
  /\ Len(argv) >= 1
  /\ releases' \in Listings
  /\ ~NoReleases(releases')
  /\ release' = releases'[1]
  /\ windows_assets' = FindWindowsAssets(release'["assets"])
  /\ NoWindowsAssets(windows_assets')
  /\ bin_name' = BinName(argv)
  /\ calls' = calls \o << [fn |-> "get_latest_release", url |-> ReleasesUrl(argv[1])],
                          [fn |-> "find_windows_assets", url |-> None] >>
  /\ Raise(NoWindowsAssetsError)
  /\ UNCHANGED <<argv, manifest, todo, content_length, main_manifest, exit_code,
                 log, files, chunks_read>>

\* generate_manifest, lines 80-116: up to the first download; with no asset
\* to hash the manifest is returned at once (line 124).
StartManifest ==
  /\ pc = "main"
  /\ Len(argv) >= 1
  /\ releases' \in Listings
  /\ ~NoReleases(releases')
  /\ release' = releases'[1]
  /\ windows_assets' = FindWindowsAssets(release'["assets"])
  /\ ~NoWindowsAssets(windows_assets')
  /\ bin_name' = BinName(argv)
  /\ calls' = calls \o << [fn |-> "get_latest_release", url |-> ReleasesUrl(argv[1])],
                          [fn |-> "find_windows_assets", url |-> None] >>
  /\ manifest' =
       IF SingleArchitecture(windows_assets')
       THEN BaseManifest(release', argv[1], AppName(argv))
       ELSE ("architecture" :> EmptyDict) @@ BaseManifest(release', argv[1], AppName(argv))
  /\ todo' = windows_assets'.keys
  /\ IF todo' = <<>>
     THEN pc' = "save_manifest" /\ main_manifest' = manifest'
     ELSE pc' = "get_file_hash" /\ main_manifest' = main_manifest
  /\ UNCHANGED <<argv, content_length, err, exit_code, log, files, chunks_read>>

\* get_file_hash, lines 33-35: the download request fails.
DownloadFails ==
  /\ pc = "get_file_hash"
  /\ LET url == windows_assets.val[Head(todo)] IN
       /\ calls' = Append(calls, [fn |-> "get_file_hash", url |-> url])
       /\ \E t \in RequestErrors : Raise([type |-> t, msg |-> url])
  /\ UNCHANGED <<argv, releases, release, windows_assets, bin_name, manifest, todo,
                 content_length, main_manifest, exit_code, log, files, chunks_read>>

\* get_file_hash, lines 33-39: the declared size is over the limit.
FileTooLarge ==
  /\ pc = "get_file_hash"
  /\ LET url == windows_assets.val[Head(todo)] IN
       /\ calls' = Append(calls, [fn |-> "get_file_hash", url |-> url])
       /\ \E response \in Responses :
            /\ content_length' = response.content_length
            /\ TooLarge(content_length')
            /\ Raise(TooLargeError(content_length'))
  /\ UNCHANGED <<argv, releases, release, windows_assets, bin_name, manifest, todo,
                 main_manifest, exit_code, log, files, chunks_read>>

\* get_file_hash, lines 33-46, and the manifest entry of lines 108-113 or
\* 117-122; after the last asset generate_manifest returns (line 124).
HashAsset ==
  /\ pc = "get_file_hash"
  /\ LET arch == Head(todo)
         url  == windows_assets.val[arch] IN
       /\ calls' = Append(calls, [fn |-> "get_file_hash", url |-> url])
       /\ chunks_read' = chunks_read \cup {url}
       /\ \E response \in Responses :
            /\ content_length' = response.content_length
            /\ ~TooLarge(content_length')
            /\ manifest' = WithEntry(manifest, windows_assets, arch,
                                     Sha256Hex(Hashed(response.chunks)), bin_name)
  /\ todo' = Tail(todo)
  /\ IF todo' = <<>>
     THEN pc' = "save_manifest" /\ main_manifest' = manifest'
     ELSE pc' = "get_file_hash" /\ main_manifest' = main_manifest
  /\ UNCHANGED <<argv, releases, release, windows_assets, bin_name, err, exit_code, log, files>>

\* save_manifest, lines 128-131, and main's lines 151-152: exit code 0.
SaveManifest ==
  /\ pc = "save_manifest"
  /\ calls' = Append(calls, [fn |-> "save_manifest", url |-> None])
  /\ files' = (SafeFileName(FileName(argv)) :> main_manifest) @@ files
  /\ pc' = "exit"
  /\ exit_code' = <<0>>
  /\ UNCHANGED <<argv, releases, release, windows_assets, bin_name, manifest, todo,
                 content_length, main_manifest, err, log, chunks_read>>

\* save_manifest, line 129: open() fails, nothing is written.
SaveFails ==
  /\ pc = "save_manifest"
  /\ calls' = Append(calls, [fn |-> "save_manifest", url |-> None])
  /\ Raise([type |-> "OSError", msg |-> SafeFileName(FileName(argv))])
  /\ UNCHANGED <<argv, releases, release, windows_assets, bin_name, manifest, todo,
                 content_length, main_manifest, exit_code, log, files, chunks_read>>

\* The exit code of main's except clauses: sys.exit(1).
Handled(category) ==
  /\ log' = category \o ": " \o err.msg
  /\ pc' = "exit"
  /\ exit_code' = <<1>>

\* main, lines 154-156
ExceptRequestException ==
  /\ pc = "except"
  /\ IsInstance(err, "RequestException")
  /\ Handled("Network error")
  /\ UNCHANGED <<argv, releases, release, windows_assets, bin_name, manifest, todo,
                 content_length, main_manifest, err, files, calls, chunks_read>>

\* main, lines 157-159
ExceptValueError ==
  /\ pc = "except"
  /\ ~IsInstance(err, "RequestException")
  /\ IsInstance(err, "ValueError")
  /\ Handled("Validation error")
  /\ UNCHANGED <<argv, releases, release, windows_assets, bin_name, manifest, todo,
                 content_length, main_manifest, err, files, calls, chunks_read>>

\* main, lines 160-162
ExceptException ==
  /\ pc = "except"
  /\ ~IsInstance(err, "RequestException")
  /\ ~IsInstance(err, "ValueError")
  /\ IsInstance(err, "Exception")
  /\ Handled("Unexpected error")
  /\ UNCHANGED <<argv, releases, release, windows_assets, bin_name, manifest, todo,
                 content_length, main_manifest, err, files, calls, chunks_read>>

Next ==
  \/ Usage
  \/ ReleaseRequestFails
  \/ ReleasesEmpty
  \/ NoAssetsFound
  \/ StartManifest
  \/ DownloadFails
  \/ FileTooLarge
  \/ HashAsset
  \/ SaveManifest
  \/ SaveFails
  \/ ExceptRequestException
  \/ ExceptValueError
  \/ ExceptException

Spec == Init /\ [][Next]_vars

\* ===================================================================== claims
\* What the run has done so far.
Assets == Get(release, "assets", <<>>)

\* What the claims say of an asset name: its lowercase, whether it holds an
\* other-OS token, a 64-bit token with "v3" anywhere, a 64-bit token followed
\* by "-v3", and the bucket the classification chain gives it (Skipped when
\* it is filtered out or skipped).
FactsOf(n) ==
  LET name == Lower(n) IN
  [ lower       |-> name,
    other_os    |-> ReSearch({"linux", "darwin", "freebsd", "macos"}, name),
    v3_anywhere |-> /\ IsWindows(name)
                    /\ ReSearch({"amd64", "x86_64"}, name)
                    /\ Contains(name, "v3"),
    v3_adjacent |-> /\ IsWindows(name)
                    /\ ReSearch({"amd64-v3", "x86_64-v3"}, name),
    into        |-> IF IsWindows(name) THEN Bucket(name) ELSE Skipped ]

\* The facts of every asset name of the model, computed once.
RECURSIVE FactsOver(_)
FactsOver(S) ==
  IF S = {} THEN EmptyDict
  ELSE LET n == CHOOSE x \in S : TRUE IN (n :> FactsOf(n)) @@ FactsOver(S \ {n})

NameFacts == FactsOver(AssetNames)

Facts(i) == NameFacts[Assets[i]["name"]]

AssetUrl(i) == Assets[i]["browser_download_url"]

Buckets == DOMAIN windows_assets.val

UrlsHeld == { windows_assets.val[k] : k \in Buckets }

Downloaded == { calls[i].url : i \in { j \in 1..Len(calls) : calls[j].fn = "get_file_hash" } }

Called(fn) == \E i \in 1..Len(calls) : calls[i].fn = fn

Classified == Called("find_windows_assets")

Returned == main_manifest # EmptyDict

IsTooLargeError(e) == e.type = "ValueError" /\ SubSeq(e.msg, 1, 14) = "File too large"

\* C1: every asset whose lowercased name holds an other-OS token (linux,
\* darwin, freebsd, macos) is left out of the mapping find_windows_assets
\* returns, even when the name also holds an architecture token and ends in
\* .exe or .zip.
C1_OtherOsAssetsExcluded ==
  \A i \in 1..Len(Assets) :
    Facts(i).other_os => AssetUrl(i) \notin UrlsHeld

\* C2 as claimed: an asset that passes the extension filter and whose
\* lowercased name holds a 64-bit token and "v3", anywhere and in any order,
\* is classified into 64bit-v3 and never held by bucket 64bit.
C2_AnyV3Goes64bitV3 ==
  \A i \in 1..Len(Assets) :
    Facts(i).v3_anywhere
    => /\ "64bit-v3" \in Buckets
       /\ ~("64bit" \in Buckets /\ windows_assets.val["64bit"] = AssetUrl(i))

\* C2 amended: an asset that passes the extension filter and whose lowercased
\* name holds a 64-bit token immediately followed by "-v3" (amd64-v3 or
\* x86_64-v3) is classified into 64bit-v3, which then holds the URL of the
\* last such asset, and its URL is never held by bucket 64bit.
C2_AdjacentV3Goes64bitV3 ==
  LET v3 == { i \in 1..Len(Assets) : Facts(i).v3_adjacent } IN
  \A i \in v3 :
    /\ "64bit-v3" \in Buckets
    /\ windows_assets.val["64bit-v3"] = AssetUrl(CHOOSE l \in v3 : \A j \in v3 : j <= l)
    /\ ~("64bit" \in Buckets /\ windows_assets.val["64bit"] = AssetUrl(i))

\* C2 witness: a v3 asset and a plain 64-bit asset of one release sit in
\* their two buckets.
C2_Witness ==
  /\ Len(Assets) = 2
  /\ Contains(Facts(1).lower, "x86_64-v3")
  /\ Contains(Facts(2).lower, "amd64") /\ ~Facts(2).v3_adjacent
  /\ Buckets = {"64bit-v3", "64bit"}
  /\ windows_assets.val["64bit-v3"] = AssetUrl(1)

\* C3: the returned manifest is flat (top-level url, hash, bin; no
\* architecture key) when the mapping has exactly one bucket, and nested
\* (architecture key with one {url, hash, bin} entry per bucket; no top-level
\* url, hash or bin) when it has two or more.
C3_ShapeFollowsBucketCount ==
  Returned =>
    /\ Cardinality(Buckets) = 1 =>
         /\ {"url", "hash", "bin"} \subseteq DOMAIN main_manifest
         /\ "architecture" \notin DOMAIN main_manifest
         /\ \A k \in Buckets : main_manifest["url"] = windows_assets.val[k]
         /\ main_manifest["bin"] = bin_name
    /\ Cardinality(Buckets) >= 2 =>
         /\ "architecture" \in DOMAIN main_manifest
         /\ {"url", "hash", "bin"} \cap DOMAIN main_manifest = {}
         /\ DOMAIN main_manifest["architecture"] = Buckets
         /\ \A k \in Buckets :
              /\ DOMAIN main_manifest["architecture"][k] = {"url", "hash", "bin"}
              /\ main_manifest["architecture"][k]["url"] = windows_assets.val[k]
              /\ main_manifest["architecture"][k]["bin"] = bin_name

\* C3 witness: a nested manifest of two buckets was written.
C3_Witness ==
  /\ pc = "exit" /\ exit_code = <<0>>
  /\ Cardinality(Buckets) = 2
  /\ "architecture" \in DOMAIN main_manifest
  /\ Cardinality(DOMAIN main_manifest["architecture"]) = 2

\* C4: the output file is written only after the release was resolved, the
\* assets were classified and every selected asset was hashed; a run in which
\* a stage failed writes nothing and exits with code 1.
C4_WriteOnlyAfterFullPipeline ==
  /\ files # EmptyDict =>
       /\ err = NoErr
       /\ release # EmptyDict /\ Classified
       /\ Buckets # {} /\ UrlsHeld \subseteq chunks_read
       /\ Returned
       /\ \A f \in DOMAIN files : files[f] = main_manifest
  /\ err # NoErr => files = EmptyDict
  /\ (pc = "exit" /\ err # NoErr) => exit_code = <<1>>

\* C4 witness: the download of the last of two selected assets failed after
\* the first was hashed; the run ended with code 1 and no file.
C4_Witness ==
  /\ pc = "exit" /\ exit_code = <<1>>
  /\ Cardinality(Buckets) = 2
  /\ Cardinality(chunks_read) = 1
  /\ Cardinality(Downloaded) = 2
  /\ err.type \in RequestErrors
  /\ files = EmptyDict

\* The Content-Length headers that declare more than 100 MiB.
OverTheLimit ==
  { r.content_length :
      r \in { x \in Responses : /\ Truthy(x.content_length)
                                 /\ ParseInt(x.content_length) > 100 * 1024 * 1024 } }

\* C5: a download fails with the too-large error exactly when the declared
\* size is above 100 * 1024 * 1024 (a size equal to it is accepted); the
\* failure comes before any chunk of that body is read, generate_manifest does
\* not return, main handles it and no file is written.
C5_TooLargeBeforeBody ==
  /\ IsTooLargeError(err) <=> content_length \in OverTheLimit
  /\ IsTooLargeError(err) =>
       /\ calls[Len(calls)].fn = "get_file_hash"
       /\ calls[Len(calls)].url \notin chunks_read
       /\ ~Returned
       /\ files = EmptyDict
       /\ pc \in {"except", "exit"}
       /\ pc = "exit" => exit_code = <<1>> /\ SubSeq(log, 1, 16) = "Validation error"

\* C5 witness: the second asset declared 104857601 bytes after the first was
\* hashed; the run ended without a file.
C5_Witness ==
  /\ pc = "exit"
  /\ content_length = "104857601"
  /\ IsTooLargeError(err)
  /\ Cardinality(chunks_read) = 1
  /\ files = EmptyDict

\* C6: get_latest_release fails with the no-releases error exactly when the
\* listing it fetched is empty; that error differs from the no-assets, the
\* too-large and the network errors, and after it nothing is classified,
\* downloaded, built or written.
C6_EmptyListingStopsRun ==
  /\ (Called("get_latest_release") /\ err.type \notin RequestErrors /\ releases = <<>>)
       <=> err = NoReleasesError
  /\ NoReleasesError # NoWindowsAssetsError
  /\ \A r \in Responses : NoReleasesError # TooLargeError(r.content_length)
  /\ NoReleasesError.type \notin RequestErrors
  /\ err = NoReleasesError =>
       /\ calls = << [fn |-> "get_latest_release", url |-> ReleasesUrl(argv[1])] >>
       /\ release = EmptyDict /\ windows_assets = NewDict
       /\ manifest = EmptyDict /\ ~Returned
       /\ chunks_read = {} /\ files = EmptyDict

\* C6 witness: the run ended on the no-releases error.
C6_Witness ==
  /\ pc = "exit" /\ exit_code = <<1>>
  /\ releases = <<>> /\ Called("get_latest_release")
  /\ err = NoReleasesError

\* C7: a returned manifest holds at least one architecture entry; when the
\* classified mapping is empty generate_manifest fails with the no-assets
\* error before any download and before a manifest value exists.
C7_ManifestHasAnEntry ==
  /\ Returned =>
       \/ {"url", "hash", "bin"} \subseteq DOMAIN main_manifest
       \/ /\ "architecture" \in DOMAIN main_manifest
          /\ DOMAIN main_manifest["architecture"] # {}
  /\ (Classified /\ Buckets = {}) <=> err = NoWindowsAssetsError
  /\ err = NoWindowsAssetsError =>
       /\ manifest = EmptyDict /\ ~Returned
       /\ Downloaded = {} /\ chunks_read = {}
       /\ files = EmptyDict

\* C7 witness: a release whose assets are all filtered out or skipped ended
\* the run on the no-assets error.
C7_Witness ==
  /\ pc = "exit" /\ exit_code = <<1>>
  /\ Len(Assets) = 2
  /\ Buckets = {}
  /\ err = NoWindowsAssetsError

\* The tag without one leading "v".
StripOneLeadingV(tag) ==
  IF tag # "" /\ SubSeq(tag, 1, 1) = "v" THEN SubSeq(tag, 2, Len(tag)) ELSE tag

\* C8: the manifest version is the release tag with a single leading "v"
\* removed when present: a tag with several leading "v" loses only the first.
C8_VersionStripsOnePrefix ==
  manifest # EmptyDict => manifest["version"] = StripOneLeadingV(release["tag_name"])

\* str.replace(old, new)
RECURSIVE ReplaceAll(_, _, _)
ReplaceAll(s, old, new) ==
  IF old = "" \/ Len(s) < Len(old) THEN s
  ELSE IF SubSeq(s, 1, Len(old)) = old
       THEN new \o ReplaceAll(SubSeq(s, Len(old) + 1, Len(s)), old, new)
       ELSE SubSeq(s, 1, 1) \o ReplaceAll(SubSeq(s, 2, Len(s)), old, new)

\* The auto-update URL template a manifest carries for a bucket.
AutoupdateUrl(m, k) ==
  IF "architecture" \in DOMAIN m["autoupdate"]
  THEN m["autoupdate"]["architecture"][k]["url"]
  ELSE m["autoupdate"]["url"]

\* C9: for every bucket of the mapping the returned manifest carries an
\* auto-update URL template: the bucket's URL with the version replaced by a
\* placeholder, or the URL unchanged when the version does not occur in it.
C9_AutoupdateTemplates ==
  Returned =>
    /\ "autoupdate" \in DOMAIN main_manifest
    /\ \A k \in Buckets :
         AutoupdateUrl(main_manifest, k) =
           ReplaceAll(windows_assets.val[k], main_manifest["version"], "$version")

\* C10: the mapping holds one URL per bucket, that of the last asset in
\* iteration order that classifies into the bucket; the earlier assets of the
\* bucket are not in the mapping and are never downloaded.
C10_LastAssetOfBucketWins ==
  LET into == [i \in 1..Len(Assets) |-> Facts(i).into] IN
  /\ \A a, b \in 1..Len(windows_assets.keys) :
       windows_assets.keys[a] = windows_assets.keys[b] => a = b
  /\ { windows_assets.keys[a] : a \in 1..Len(windows_assets.keys) } = Buckets
  /\ Buckets = { into[i] : i \in 1..Len(Assets) } \ {Skipped}
  /\ \A i \in 1..Len(Assets) :
       into[i] # Skipped =>
         IF \E j \in (i + 1)..Len(Assets) : into[j] = into[i]
         THEN AssetUrl(i) \notin UrlsHeld /\ AssetUrl(i) \notin Downloaded
         ELSE windows_assets.val[into[i]] = AssetUrl(i)
  /\ Downloaded \subseteq UrlsHeld

\* C10 witness: two assets of the same bucket; the second was hashed and
\* written, the first never requested.
C10_Witness ==
  /\ pc = "exit" /\ exit_code = <<0>>
  /\ Len(Assets) = 2
  /\ Facts(1).into = "64bit" /\ Facts(2).into = "64bit"
  /\ windows_assets.val["64bit"] = AssetUrl(2)
  /\ Downloaded = {AssetUrl(2)}

====
